---- MODULE Spec2Model ----
(***************************************************************************)
(* WDL.Zip: packaging a WDL document and its imports into an archive       *)
(* (build, build_source_dir, build_zip_paths, rewrite_imports) and         *)
(* unpacking one (unpack).  Python strings are sequences of one-character  *)
(* strings, so that prefix, replace and split are computed as the code     *)
(* computes them.                                                          *)
(***************************************************************************)
EXTENDS Integers, Sequences, FiniteSets, TLC

(***************************************************************************)
(* Python str / os.path primitives used by WDL/Zip.py                      *)
(***************************************************************************)

\* the value None, and None where a str may stand (an Optional[str])
None == "None"

NoPath == <<"None">>

\* s.startswith(p)
startswith(s, p) == Len(p) <= Len(s) /\ SubSeq(s, 1, Len(p)) = p

\* s.endswith(p)
endswith(s, p) == Len(p) <= Len(s) /\ SubSeq(s, Len(s) - Len(p) + 1, Len(s)) = p

\* p in s  (substring test)
contains(s, p) == \E i \in 0..(Len(s) - Len(p)) : SubSeq(s, i + 1, i + Len(p)) = p

\* s[n:]
strfrom(s, n) == SubSeq(s, n + 1, Len(s))

\* s.replace(old, new): every non-overlapping occurrence, left to right
RECURSIVE replace(_, _, _)
replace(s, old, new) ==
    IF Len(s) < Len(old) \/ old = <<>> THEN s
    ELSE IF SubSeq(s, 1, Len(old)) = old
         THEN new \o replace(strfrom(s, Len(old)), old, new)
         ELSE <<Head(s)>> \o replace(Tail(s), old, new)

\* s.rstrip("/")
RECURSIVE rstrip_slash(_)
rstrip_slash(s) ==
    IF s # <<>> /\ s[Len(s)] = "/" THEN rstrip_slash(SubSeq(s, 1, Len(s) - 1)) ELSE s

\* os.path.commonprefix([a, b]): character-wise longest common prefix
RECURSIVE commonprefix(_, _)
commonprefix(a, b) ==
    IF a = <<>> \/ b = <<>> \/ Head(a) # Head(b) THEN <<>>
    ELSE <<Head(a)>> \o commonprefix(Tail(a), Tail(b))

\* index of the last "/" in s, 0 when there is none  (s.rfind("/") + 1)
lastslash(s) ==
    LET I == {i \in 1..Len(s) : s[i] = "/"}
    IN  IF I = {} THEN 0 ELSE CHOOSE i \in I : \A j \in I : j <= i

\* os.path.basename(p)
basename(p) == strfrom(p, lastslash(p))

\* os.path.dirname(p)
dirname(p) ==
    LET head == SubSeq(p, 1, lastslash(p))
    IN  IF head # <<>> /\ \E i \in 1..Len(head) : head[i] # "/"
        THEN rstrip_slash(head) ELSE head

\* os.path.join(a, b)
join(a, b) ==
    IF startswith(b, <<"/">>) THEN b
    ELSE IF a = <<>> \/ endswith(a, <<"/">>) THEN a \o b
    ELSE a \o <<"/">> \o b

\* p.split("/")
RECURSIVE split(_)
split(p) ==
    LET I == {i \in 1..Len(p) : p[i] = "/"}
    IN  IF I = {} THEN <<p>>
        ELSE LET i == CHOOSE k \in I : \A j \in I : k <= j
             IN  <<SubSeq(p, 1, i - 1)>> \o split(strfrom(p, i))

\* "/".join(comps)
RECURSIVE joinall(_)
joinall(comps) ==
    IF comps = <<>> THEN <<>>
    ELSE IF Len(comps) = 1 THEN comps[1]
    ELSE comps[1] \o <<"/">> \o joinall(Tail(comps))

\* the process's working directory, os.getcwd()
getcwd == <<"/", "w">>

\* the components of os.path.normpath(p) for an absolute p: "" and "." are dropped,
\* ".." removes the component before it and is dropped at the root
RECURSIVE normcomps(_, _)
normcomps(todo, done) ==
    IF todo = <<>> THEN done
    ELSE LET c == Head(todo)
         IN  IF c = <<>> \/ c = <<".">> THEN normcomps(Tail(todo), done)
             ELSE IF c = <<".", ".">>
                  THEN normcomps(Tail(todo),
                                 IF done = <<>> THEN done ELSE SubSeq(done, 1, Len(done) - 1))
                  ELSE normcomps(Tail(todo), Append(done, c))

\* the components of os.path.abspath(p)
abscomps(p) == normcomps(split(join(getcwd, p)), <<>>)

\* number of leading components two component lists share
RECURSIVE commonlen(_, _)
commonlen(a, b) ==
    IF a = <<>> \/ b = <<>> \/ Head(a) # Head(b) THEN 0
    ELSE 1 + commonlen(Tail(a), Tail(b))

\* os.path.relpath(path, start)
relpath(path, start) ==
    LET start_list == abscomps(start)
        path_list == abscomps(path)
        i == commonlen(start_list, path_list)
        rel_list == [k \in 1..(Len(start_list) - i) |-> <<".", ".">>]
                    \o SubSeq(path_list, i + 1, Len(path_list))
    IN  IF rel_list = <<>> THEN <<".">> ELSE joinall(rel_list)

(***************************************************************************)
(* The parsed documents a caller can hand to build (Tree.Document: pos.abspath, *)
(* source_lines, imports with uri, pos.line, pos.end_line and doc).  The   *)
(* import graphs are acyclic, as the parser leaves them.                   *)
(***************************************************************************)

DocIds == {"main", "x", "y", "z", "oc", "rc", "bd", "sp", "ux", "ud", "m2", "m3", "m4", "m5", "m6", "m8", "um"}

\* main: /a/bc/m
\*     | import "x"
\*     | import "s/y"
Doc_main ==
    [abspath |-> <<"/", "a", "/", "b", "c", "/", "m">>,
     source_lines |-> <<<<"i", "m", "p", "o", "r", "t", " ", "\"", "x", "\"">>,
                        <<"i", "m", "p", "o", "r", "t", " ", "\"", "s", "/", "y", "\"">>>>,
     imports |-> <<[uri |-> <<"x">>, line |-> 1, end_line |-> 1, doc |-> "x"],
                   [uri |-> <<"s", "/", "y">>, line |-> 2, end_line |-> 2, doc |-> "y"]>>]

\* x: /a/bc/x
\*     | import "s/y"
Doc_x ==
    [abspath |-> <<"/", "a", "/", "b", "c", "/", "x">>,
     source_lines |-> <<<<"i", "m", "p", "o", "r", "t", " ", "\"", "s", "/", "y", "\"">>>>,
     imports |-> <<[uri |-> <<"s", "/", "y">>, line |-> 1, end_line |-> 1, doc |-> "y"]>>]

\* y: /a/bc/s/y
\*     | import "/a/bc/s/z"
Doc_y ==
    [abspath |-> <<"/", "a", "/", "b", "c", "/", "s", "/", "y">>,
     source_lines |-> <<<<"i", "m", "p", "o", "r", "t", " ", "\"", "/", "a", "/", "b", "c", "/", "s", "/", "z", "\"">>>>,
     imports |-> <<[uri |-> <<"/", "a", "/", "b", "c", "/", "s", "/", "z">>, line |-> 1, end_line |-> 1, doc |-> "z"]>>]

\* z: /a/bc/s/z
\*     | task t
Doc_z ==
    [abspath |-> <<"/", "a", "/", "b", "c", "/", "s", "/", "z">>,
     source_lines |-> <<<<"t", "a", "s", "k", " ", "t">>>>,
     imports |-> <<>>]

\* oc: /a/c/x
\*     | task t
Doc_oc ==
    [abspath |-> <<"/", "a", "/", "c", "/", "x">>,
     source_lines |-> <<<<"t", "a", "s", "k", " ", "t">>>>,
     imports |-> <<>>]

\* rc: /c/x
\*     | task t
Doc_rc ==
    [abspath |-> <<"/", "c", "/", "x">>,
     source_lines |-> <<<<"t", "a", "s", "k", " ", "t">>>>,
     imports |-> <<>>]

\* bd: /a/bd/x
\*     | task t
Doc_bd ==
    [abspath |-> <<"/", "a", "/", "b", "d", "/", "x">>,
     source_lines |-> <<<<"t", "a", "s", "k", " ", "t">>>>,
     imports |-> <<>>]

\* sp: /a/bc/p/__outside_wdl/c/x
\*     | task t
Doc_sp ==
    [abspath |-> <<"/", "a", "/", "b", "c", "/", "p", "/", "_", "_", "o", "u", "t", "s", "i", "d", "e", "_", "w", "d", "l", "/", "c", "/", "x">>,
     source_lines |-> <<<<"t", "a", "s", "k", " ", "t">>>>,
     imports |-> <<>>]

\* ux: h://u/e/x
\*     | task t
Doc_ux ==
    [abspath |-> <<"h", ":", "/", "/", "u", "/", "e", "/", "x">>,
     source_lines |-> <<<<"t", "a", "s", "k", " ", "t">>>>,
     imports |-> <<>>]

\* ud: h://u/d/x
\*     | task t
Doc_ud ==
    [abspath |-> <<"h", ":", "/", "/", "u", "/", "d", "/", "x">>,
     source_lines |-> <<<<"t", "a", "s", "k", " ", "t">>>>,
     imports |-> <<>>]

\* m2: /a/bc/m2
\*     | version 1.0
\*     | import
\*     | "../c/x"
Doc_m2 ==
    [abspath |-> <<"/", "a", "/", "b", "c", "/", "m", "2">>,
     source_lines |-> <<<<"v", "e", "r", "s", "i", "o", "n", " ", "1", ".", "0">>,
                        <<"i", "m", "p", "o", "r", "t">>,
                        <<"\"", ".", ".", "/", "c", "/", "x", "\"">>>>,
     imports |-> <<[uri |-> <<".", ".", "/", "c", "/", "x">>, line |-> 2, end_line |-> 3, doc |-> "oc"]>>]

\* m3: /a/bc/m3
\*     | import "../c/x"
\*     | import "/c/x"
Doc_m3 ==
    [abspath |-> <<"/", "a", "/", "b", "c", "/", "m", "3">>,
     source_lines |-> <<<<"i", "m", "p", "o", "r", "t", " ", "\"", ".", ".", "/", "c", "/", "x", "\"">>,
                        <<"i", "m", "p", "o", "r", "t", " ", "\"", "/", "c", "/", "x", "\"">>>>,
     imports |-> <<[uri |-> <<".", ".", "/", "c", "/", "x">>, line |-> 1, end_line |-> 1, doc |-> "oc"],
                   [uri |-> <<"/", "c", "/", "x">>, line |-> 2, end_line |-> 2, doc |-> "rc"]>>]

\* m4: /a/bc/m4
\*     | import "../bd/x"
Doc_m4 ==
    [abspath |-> <<"/", "a", "/", "b", "c", "/", "m", "4">>,
     source_lines |-> <<<<"i", "m", "p", "o", "r", "t", " ", "\"", ".", ".", "/", "b", "d", "/", "x", "\"">>>>,
     imports |-> <<[uri |-> <<".", ".", "/", "b", "d", "/", "x">>, line |-> 1, end_line |-> 1, doc |-> "bd"]>>]

\* m5: /a/bc/m5
\*     | import "../c/x" import "../c/x"
Doc_m5 ==
    [abspath |-> <<"/", "a", "/", "b", "c", "/", "m", "5">>,
     source_lines |-> <<<<"i", "m", "p", "o", "r", "t", " ", "\"", ".", ".", "/", "c", "/", "x", "\"", " ", "i", "m", "p", "o", "r", "t", " ", "\"", ".", ".", "/", "c", "/", "x", "\"">>>>,
     imports |-> <<[uri |-> <<".", ".", "/", "c", "/", "x">>, line |-> 1, end_line |-> 1, doc |-> "oc"],
                   [uri |-> <<".", ".", "/", "c", "/", "x">>, line |-> 1, end_line |-> 1, doc |-> "oc"]>>]

\* m6: /a/bc/m6
\*     | import "../c/x" import "__outside_wdl/c/x"
Doc_m6 ==
    [abspath |-> <<"/", "a", "/", "b", "c", "/", "m", "6">>,
     source_lines |-> <<<<"i", "m", "p", "o", "r", "t", " ", "\"", ".", ".", "/", "c", "/", "x", "\"", " ", "i", "m", "p", "o", "r", "t", " ", "\"", "_", "_", "o", "u", "t", "s", "i", "d", "e", "_", "w", "d", "l", "/", "c", "/", "x", "\"">>>>,
     imports |-> <<[uri |-> <<".", ".", "/", "c", "/", "x">>, line |-> 1, end_line |-> 1, doc |-> "oc"],
                   [uri |-> <<"_", "_", "o", "u", "t", "s", "i", "d", "e", "_", "w", "d", "l", "/", "c", "/", "x">>, line |-> 1, end_line |-> 1, doc |-> "sp"]>>]

\* m8: /a/bc/m8
\*     | import "h://u/e/x"
Doc_m8 ==
    [abspath |-> <<"/", "a", "/", "b", "c", "/", "m", "8">>,
     source_lines |-> <<<<"i", "m", "p", "o", "r", "t", " ", "\"", "h", ":", "/", "/", "u", "/", "e", "/", "x", "\"">>>>,
     imports |-> <<[uri |-> <<"h", ":", "/", "/", "u", "/", "e", "/", "x">>, line |-> 1, end_line |-> 1, doc |-> "ux"]>>]

\* um: h://u/d/m
\*     | import "h://u/e/x"
\*     | import "x"
Doc_um ==
    [abspath |-> <<"h", ":", "/", "/", "u", "/", "d", "/", "m">>,
     source_lines |-> <<<<"i", "m", "p", "o", "r", "t", " ", "\"", "h", ":", "/", "/", "u", "/", "e", "/", "x", "\"">>,
                        <<"i", "m", "p", "o", "r", "t", " ", "\"", "x", "\"">>>>,
     imports |-> <<[uri |-> <<"h", ":", "/", "/", "u", "/", "e", "/", "x">>, line |-> 1, end_line |-> 1, doc |-> "ux"],
                   [uri |-> <<"x">>, line |-> 2, end_line |-> 2, doc |-> "ud"]>>]

Docs ==
       "main" :> Doc_main
    @@ "x" :> Doc_x
    @@ "y" :> Doc_y
    @@ "z" :> Doc_z
    @@ "oc" :> Doc_oc
    @@ "rc" :> Doc_rc
    @@ "bd" :> Doc_bd
    @@ "sp" :> Doc_sp
    @@ "ux" :> Doc_ux
    @@ "ud" :> Doc_ud
    @@ "m2" :> Doc_m2
    @@ "m3" :> Doc_m3
    @@ "m4" :> Doc_m4
    @@ "m5" :> Doc_m5
    @@ "m6" :> Doc_m6
    @@ "m8" :> Doc_m8
    @@ "um" :> Doc_um


\* the quote character and f'"{uri}"'
quoted(uri) == <<"\"">> \o uri \o <<"\"">>

\* the reserved directory "__outside_wdl/"
outside_wdl == <<"_", "_", "o", "u", "t", "s", "i", "d", "e", "_", "w", "d", "l", "/">>

\* "://" and "_"
scheme_sep == <<":", "/", "/">>
underscore == <<"_">>

(***************************************************************************)
(* A Python dict as the sequence of its (key, value) pairs in insertion    *)
(* order                                                                   *)
(***************************************************************************)

dict_keys(d) == [i \in 1..Len(d) |-> d[i].key]

dict_has(d, k) == \E i \in 1..Len(d) : d[i].key = k

dict_get(d, k) == d[CHOOSE i \in 1..Len(d) : d[i].key = k].val

\* d[k] = v
dict_set(d, k, v) ==
    IF dict_has(d, k)
    THEN [i \in 1..Len(d) |-> IF d[i].key = k THEN [key |-> k, val |-> v] ELSE d[i]]
    ELSE Append(d, [key |-> k, val |-> v])

(***************************************************************************)
(* build_zip_paths                                                         *)
(***************************************************************************)

\* the archive path of one document: [raised, path, outside]
zip_path_of(main_dir, abspath) ==
    IF startswith(abspath, main_dir)
    THEN [raised |-> FALSE, path |-> relpath(abspath, main_dir), outside |-> FALSE]
    ELSE LET abspath2 == replace(abspath, scheme_sep, underscore)
             prefix == commonprefix(abspath2, replace(main_dir, scheme_sep, underscore))
         IN  IF startswith(abspath2, prefix) /\ endswith(prefix, <<"/">>)
             THEN [raised |-> FALSE,
                   path |-> outside_wdl \o strfrom(abspath2, Len(prefix)),
                   outside |-> TRUE]
             ELSE [raised |-> TRUE, path |-> <<>>, outside |-> TRUE]

\* the loop over wdls.keys(): ans as a dict, stopping at a failed assertion
RECURSIVE zip_paths_loop(_, _, _, _)
zip_paths_loop(main_dir, keys, ans, outside_warn) ==
    IF keys = <<>>
    THEN [raised |-> FALSE, ans |-> ans, warnings |-> IF outside_warn THEN 1 ELSE 0]
    ELSE LET r == zip_path_of(main_dir, Head(keys))
         IN  IF r.raised
             THEN [raised |-> TRUE, ans |-> ans, warnings |-> 0]
             ELSE zip_paths_loop(main_dir, Tail(keys), dict_set(ans, Head(keys), r.path),
                                 outside_warn \/ r.outside)

build_zip_paths(main_dir, wdls) == zip_paths_loop(main_dir, dict_keys(wdls), <<>>, FALSE)

(***************************************************************************)
(* rewrite_imports                                                         *)
(***************************************************************************)

\* new_uri of one import edge of doc
new_uri(doc, imp, zip_paths) ==
    relpath(dict_get(zip_paths, Docs[imp.doc].abspath),
            dirname(dict_get(zip_paths, doc.abspath)))

\* for lineno in range(lo, hi): lines are numbered from 1 here, so lineno runs
\* over imp.pos.line .. imp.pos.end_line
RECURSIVE rewrite_span(_, _, _, _, _, _)
rewrite_span(source_lines, lineno, hi, old_uri_pattern, new_uri_pattern, found) ==
    IF lineno > hi THEN [found |-> found, source_lines |-> source_lines]
    ELSE LET line == source_lines[lineno]
             line2 == replace(line, old_uri_pattern, new_uri_pattern)
         IN  rewrite_span([source_lines EXCEPT ![lineno] = line2], lineno + 1, hi,
                          old_uri_pattern, new_uri_pattern,
                          found \/ contains(line, old_uri_pattern))

\* for imp in doc.imports: ... assert found
RECURSIVE rewrite_edges(_, _, _, _)
rewrite_edges(doc, imports, zip_paths, source_lines) ==
    IF imports = <<>> THEN [raised |-> FALSE, source_lines |-> source_lines]
    ELSE LET imp == Head(imports)
             r == rewrite_span(source_lines, imp.line, imp.end_line, quoted(imp.uri),
                               quoted(new_uri(doc, imp, zip_paths)), FALSE)
         IN  IF ~r.found THEN [raised |-> TRUE, source_lines |-> r.source_lines]
             ELSE rewrite_edges(doc, Tail(imports), zip_paths, r.source_lines)

rewrite_imports(doc, zip_paths) == rewrite_edges(doc, doc.imports, zip_paths, doc.source_lines)

(***************************************************************************)
(* State                                                                   *)
(***************************************************************************)

VARIABLES
    pc,             \* where the running call stands; "idle" between calls
    top_doc,        \* build: the root document
    archive,        \* build: the destination path
    inputs,         \* build: default inputs (None, an empty dict, a dict)
    meta,           \* build: metadata (None, a dict)
    archive_format, \* build: the format name handed to shutil.make_archive
    queue,          \* build_source_dir: the worklist
    wdls,           \* build_source_dir: documents keyed by abspath
    zip_paths,      \* build_source_dir: the archive path map
    written,        \* build_source_dir: how many documents of wdls are staged
    cleanup,        \* the call's contextlib.ExitStack: temp directories entered
    error,          \* the exception the call ended with, or None
    fs,             \* the filesystem
    archive_fn,     \* unpack: the path given, MANIFEST.json appended for a directory
    package,        \* unpack: the MANIFEST.json content behind the path given
    manifest_fn,    \* unpack: the manifest location
    handle,         \* unpack: the UnpackedZip yielded, or None
    log             \* what the call has done so far (history, not program state)

buildVars == <<top_doc, archive, inputs, meta, archive_format, queue, wdls, zip_paths, written>>

unpackVars == <<archive_fn, package, manifest_fn, handle>>

\* destination paths a caller passes as `archive`: "o" and "d/o"
ArchivePaths == {<<"o">>, <<"d", "/", "o">>}

\* archive_format values: a format shutil knows and one it does not
ArchiveFormats == {"zip", "rar"}

\* content of a file that may hold an archive
absent == "absent"

\* the temporary directories of a call
TmpNames == {"zip_dir", "tmp_zip", "dn"}

\* the filesystem before any call: "o" already holds a file, "d/o" and "d" do not exist;
\* the caller's unpacked directory /u exists
InitFs ==
    [tmpdirs |-> {}, staged |-> <<>>, tmp_zip_file |-> absent,
     files |-> [a \in ArchivePaths |-> IF contains(a, <<"/">>) THEN absent ELSE "old"],
     parent_d |-> FALSE, user_dir |-> TRUE, extracted |-> FALSE]

NoLog == [expanded |-> [d \in DocIds |-> 0], warnings |-> 0, dest0 |-> absent,
          rewritten |-> <<>>, failed_at |-> None, given |-> NoPath, created |-> {},
          fs0 |-> InitFs]

(***************************************************************************)
(* contextlib.ExitStack of tempfile.TemporaryDirectory contexts            *)
(***************************************************************************)

\* shutil.rmtree of one temporary directory, with what it holds
rmtree(f, name) ==
    [f EXCEPT !.tmpdirs = @ \ {name},
              !.staged = IF name = "zip_dir" THEN <<>> ELSE @,
              !.extracted = IF name = "dn" THEN FALSE ELSE @,
              !.tmp_zip_file = IF name = "tmp_zip" THEN absent ELSE @]

\* ExitStack.__exit__: the entered contexts are left in reverse order
RECURSIVE exit_stack_close(_, _)
exit_stack_close(f, stack) ==
    IF stack = <<>> THEN f
    ELSE exit_stack_close(rmtree(f, stack[Len(stack)]), SubSeq(stack, 1, Len(stack) - 1))

\* tempfile.TemporaryDirectory(...).__enter__: the directory exists
mkdtemp(f, name) == [f EXCEPT !.tmpdirs = @ \cup {name}]

\* a directory made with tempfile.mkdtemp and never registered with the stack
enter_context_dropped(stack, name) == stack

\* cleanup.enter_context(...): the stack after entering the directory
enter_context(stack, name) == Append(stack, name)

(***************************************************************************)
(* build                                                                   *)
(***************************************************************************)

\* main_dir of build_source_dir
main_dir_of(doc) == rstrip_slash(dirname(doc.abspath)) \o <<"/">>

\* the call ends with an exception: the with block of build unwinds
BuildRaise(exc, f, step) ==
    /\ pc' = "failed"
    /\ error' = exc
    /\ log' = [log EXCEPT !.failed_at = step]
    /\ fs' = exit_stack_close(f, cleanup)
    /\ cleanup' = <<>>

StartBuild ==
    /\ pc = "idle"
    /\ \E d \in DocIds, a \in ArchivePaths, i \in {None, "empty", "dict"},
          m \in {None, "dict"}, fmt \in ArchiveFormats :
         /\ top_doc' = d
         /\ archive' = a
         /\ inputs' = i
         /\ meta' = m
         /\ archive_format' = fmt
         /\ queue' = <<d>>
         /\ log' = [NoLog EXCEPT !.dest0 = fs.files[a], !.fs0 = fs]
    /\ pc' = "collect"
    /\ wdls' = <<>>
    /\ zip_paths' = <<>>
    /\ written' = 0
    /\ error' = None
    /\ UNCHANGED <<cleanup, fs>>
    /\ UNCHANGED unpackVars

\* one turn of `while queue:` in build_source_dir
Collect ==
    /\ pc = "collect"
    /\ queue # <<>>
    /\ LET a_doc == queue[Len(queue)]
           imps == Docs[a_doc].imports
       IN  /\ queue' = SubSeq(queue, 1, Len(queue) - 1)
                         \o [i \in 1..Len(imps) |-> imps[i].doc]
           /\ wdls' = dict_set(wdls, Docs[a_doc].abspath, a_doc)
           /\ log' = [log EXCEPT !.expanded[a_doc] = @ + 1]
    /\ UNCHANGED <<pc, top_doc, archive, inputs, meta, archive_format, zip_paths, written,
                   cleanup, error, fs>>
    /\ UNCHANGED unpackVars

\* build_zip_paths and the two assertions after it
DerivePaths ==
    /\ pc = "collect"
    /\ queue = <<>>
    /\ LET r == build_zip_paths(main_dir_of(Docs[top_doc]), wdls)
       IN  IF r.raised
           THEN /\ BuildRaise("AssertionError", fs, "build_zip_paths")
                /\ UNCHANGED zip_paths
           ELSE /\ zip_paths' = r.ans
                /\ IF /\ dict_keys(r.ans) = dict_keys(wdls)
                      /\ dict_get(r.ans, Docs[top_doc].abspath)
                           = basename(Docs[top_doc].abspath)
                   THEN /\ pc' = "staging"
                        /\ log' = [log EXCEPT !.warnings = r.warnings]
                        /\ UNCHANGED <<cleanup, error, fs>>
                   ELSE BuildRaise("AssertionError", fs, "build_source_dir")
    /\ UNCHANGED <<top_doc, archive, inputs, meta, archive_format, queue, wdls, written>>
    /\ UNCHANGED unpackVars

\* zip_dir = cleanup.enter_context(tempfile.TemporaryDirectory(...))
EnterStaging ==
    /\ pc = "staging"
    /\ \/ /\ fs' = mkdtemp(fs, "zip_dir")
          /\ cleanup' = enter_context(cleanup, "zip_dir")
          /\ pc' = "write"
          /\ UNCHANGED <<error, log>>
       \/ BuildRaise("OSError", fs, "zip_dir")
    /\ UNCHANGED buildVars
    /\ UNCHANGED unpackVars

\* one turn of `for abspath, a_doc in wdls.items():`
WriteDoc ==
    /\ pc = "write"
    /\ written < Len(wdls)
    /\ LET a_doc == Docs[wdls[written + 1].val]
           r == rewrite_imports(a_doc, zip_paths)
           fn == dict_get(zip_paths, a_doc.abspath)
       IN  IF r.raised
           THEN /\ BuildRaise("AssertionError", fs, "rewrite_imports")
                /\ UNCHANGED written
           ELSE \/ /\ fs' = [fs EXCEPT !.staged = dict_set(@, fn, r.source_lines)]
                   /\ written' = written + 1
                   /\ log' = [log EXCEPT !.rewritten = Append(@, r.source_lines)]
                   /\ UNCHANGED <<pc, cleanup, error>>
                \/ /\ BuildRaise("OSError", fs, "write")
                   /\ UNCHANGED written
    /\ UNCHANGED <<top_doc, archive, inputs, meta, archive_format, queue, wdls, zip_paths>>
    /\ UNCHANGED unpackVars

\* the manifest of build
manifest_of(doc, inp, met) ==
    [mainWorkflowURL |-> basename(doc.abspath),
     meta |-> IF met # None THEN met ELSE None,
     inputFileURLs |-> IF inp = "dict" THEN <<<<"d", "e", "f", "a", "u", "l", "t", "_", "i", "n", "p", "u", "t", ".", "j", "s", "o", "n">>>> ELSE None]

MANIFEST_json == <<"M", "A", "N", "I", "F", "E", "S", "T", ".", "j", "s", "o", "n">>

default_input_json == <<"d", "e", "f", "a", "u", "l", "t", "_", "i", "n", "p", "u", "t", ".", "j", "s", "o", "n">>

\* default_input.json and MANIFEST.json are written into the staging directory
WriteManifest ==
    /\ pc = "write"
    /\ written = Len(wdls)
    /\ LET manifest == manifest_of(Docs[top_doc], inputs, meta)
           staged1 == IF inputs = "dict"
                      THEN dict_set(fs.staged, default_input_json, inputs)
                      ELSE fs.staged
       IN  \/ /\ fs' = [fs EXCEPT !.staged = dict_set(staged1, MANIFEST_json, manifest)]
              /\ pc' = "archive"
              /\ UNCHANGED <<cleanup, error, log>>
           \/ BuildRaise("OSError", [fs EXCEPT !.staged = staged1], "manifest")
    /\ UNCHANGED buildVars
    /\ UNCHANGED unpackVars

\* the archive written straight to the destination path
make_archive_at_destination == "archive"

\* where shutil.make_archive writes: "tmp_zip" is the file in the second temp directory
make_archive_target == "tmp_zip"

\* the filesystem with content c in the file make_archive writes
write_archive(f, a, c) ==
    IF make_archive_target = "tmp_zip"
    THEN [f EXCEPT !.tmp_zip_file = c]
    ELSE [f EXCEPT !.files[a] = c]

\* tmp_zip is entered and shutil.make_archive starts writing
BeginArchive ==
    /\ pc = "archive"
    /\ \/ /\ archive_format = "zip"
          /\ fs' = write_archive(mkdtemp(fs, "tmp_zip"), archive, "partial")
          /\ cleanup' = enter_context(cleanup, "tmp_zip")
          /\ pc' = "archiving"
          /\ UNCHANGED <<error, log>>
       \/ /\ archive_format # "zip"
          /\ pc' = "failed"
          /\ error' = "ValueError"
          /\ log' = [log EXCEPT !.failed_at = "make_archive"]
          /\ fs' = exit_stack_close(mkdtemp(fs, "tmp_zip"), enter_context(cleanup, "tmp_zip"))
          /\ cleanup' = <<>>
       \/ BuildRaise("OSError", fs, "tmp_zip")
    /\ UNCHANGED buildVars
    /\ UNCHANGED unpackVars

\* shutil.make_archive finishes, or is interrupted
FinishArchive ==
    /\ pc = "archiving"
    /\ \/ /\ fs' = write_archive(fs, archive, "complete")
          /\ pc' = "move"
          /\ UNCHANGED <<cleanup, error, log>>
       \/ BuildRaise("OSError", fs, "make_archive")
    /\ UNCHANGED buildVars
    /\ UNCHANGED unpackVars

\* os.rename(tmp_zip, archive) of a filesystem where the rename succeeds
rename(f, a) == [f EXCEPT !.files[a] = f.tmp_zip_file, !.tmp_zip_file = absent]

\* os.makedirs(os.path.dirname(archive), exist_ok=True)
makedirs(f, a) == IF contains(a, <<"/">>) THEN [f EXCEPT !.parent_d = TRUE] ELSE f

\* the parent directory of the destination exists
parent_exists(f, a) == IF contains(a, <<"/">>) THEN f.parent_d ELSE TRUE

\* the parent directory is made, the archive renamed, and the with block left
MoveToFinal ==
    /\ pc = "move"
    /\ \/ /\ contains(archive, <<"/">>)
          /\ BuildRaise("OSError", fs, "makedirs")
       \/ BuildRaise("OSError", makedirs(fs, archive), "rename")
       \/ /\ parent_exists(makedirs(fs, archive), archive)
          /\ fs' = exit_stack_close(rename(makedirs(fs, archive), archive), cleanup)
          /\ cleanup' = <<>>
          /\ pc' = "done"
          /\ UNCHANGED <<error, log>>
    /\ UNCHANGED buildVars
    /\ UNCHANGED unpackVars

(***************************************************************************)
(* The filesystem unpack looks at.  /u is an unpacked source directory of  *)
(* the caller, /g a readable archive, /k a file that is no archive, /v a   *)
(* directory without a manifest, /e/p a file outside, /t/z the extraction  *)
(* directory.  What an archive or /u holds, relative to its root:          *)
(*   MANIFEST.json, m, j, s/x (files), s (directory), l -> /e/p (symlink)  *)
(***************************************************************************)

p_u == <<"/", "u">>
p_u_manifest == <<"/", "u", "/", "M", "A", "N", "I", "F", "E", "S", "T", ".", "j", "s", "o", "n">>
p_g == <<"/", "g">>
p_k == <<"/", "k">>
p_v == <<"/", "v">>
p_dn == <<"/", "t", "/", "z">>
p_e_p == <<"/", "e", "/", "p">>

\* the paths a caller passes as archive_fn
ArchiveFns == {p_u, p_u_manifest, p_g, p_k, p_v}

\* the entry a source tree holds at the relative components rel
tree_node(rel) ==
    IF rel \in {<<<<"m">>>>, <<<<"j">>>>, <<<<"s">>, <<"x">>>>, <<MANIFEST_json>>}
    THEN [kind |-> "file"]
    ELSE IF rel = <<<<"s">>>> THEN [kind |-> "dir"]
    ELSE IF rel = <<<<"l">>>> THEN [kind |-> "link", target |-> p_e_p]
    ELSE [kind |-> "none"]

\* os.lstat: what the filesystem f holds at the absolute components comps
node(f, comps) ==
    IF comps \in {<<>>, <<<<"e">>>>, <<<<"t">>>>, <<<<"v">>>>, <<<<"w">>>>} THEN [kind |-> "dir"]
    ELSE IF comps \in {<<<<"e">>, <<"p">>>>, <<<<"g">>>>, <<<<"k">>>>} THEN [kind |-> "file"]
    ELSE IF comps = <<<<"u">>>>
         THEN [kind |-> IF f.user_dir THEN "dir" ELSE "none"]
    ELSE IF comps = <<<<"t">>, <<"z">>>>
         THEN [kind |-> IF "dn" \in f.tmpdirs THEN "dir" ELSE "none"]
    ELSE IF Len(comps) > 1 /\ comps[1] = <<"u">> /\ f.user_dir
         THEN tree_node(Tail(comps))
    ELSE IF Len(comps) > 2 /\ SubSeq(comps, 1, 2) = <<<<"t">>, <<"z">>>> /\ f.extracted
         THEN tree_node(SubSeq(comps, 3, Len(comps)))
    ELSE [kind |-> "none"]

\* the components of os.path.realpath: "..", "." and symlinks resolved
RECURSIVE resolve(_, _, _)
resolve(f, todo, done) ==
    IF todo = <<>> THEN done
    ELSE LET c == Head(todo)
         IN  IF c = <<>> \/ c = <<".">> THEN resolve(f, Tail(todo), done)
             ELSE IF c = <<".", ".">>
                  THEN resolve(f, Tail(todo),
                               IF done = <<>> THEN done ELSE SubSeq(done, 1, Len(done) - 1))
                  ELSE LET n == node(f, Append(done, c))
                       IN  IF n.kind = "link"
                           THEN resolve(f, split(n.target) \o Tail(todo), <<>>)
                           ELSE resolve(f, Tail(todo), Append(done, c))

realpath(f, p) == resolve(f, split(join(getcwd, p)), <<>>)

\* os.path.isdir(p)
isdir(f, p) == node(f, realpath(f, p)).kind = "dir"

\* os.path.isfile(p): a regular file, symlinks followed
isfile(f, p) == node(f, realpath(f, p)).kind = "file" /\ ~endswith(p, <<"/">>)

\* os.path.abspath(p)
os_path_abspath(p) == <<"/">> \o joinall(abscomps(p))

\* WDL._util.path_really_within(lhs, rhs): after resolving symlinks, lhs lies inside rhs
path_really_within(f, lhs, rhs) ==
    LET l == realpath(f, lhs)
        r == realpath(f, rhs)
    IN  Len(l) > Len(r) /\ SubSeq(l, 1, Len(r)) = r

(***************************************************************************)
(* MANIFEST.json contents.  A JSON value is a record [t, s, l]: t is       *)
(* "str" (s its text), "num", "list" (l its elements) or "absent" (the key *)
(* is not there).  A manifest file is [json, mainWorkflowURL,              *)
(* inputFileURLs]: json is "dict", "list" (JSON, but no object) or         *)
(* "garbage" (no JSON).                                                    *)
(***************************************************************************)

Absent == [t |-> "absent", s |-> <<>>, l |-> <<>>]

json_str(x) == [t |-> "str", s |-> x, l |-> <<>>]

json_num == [t |-> "num", s |-> <<>>, l |-> <<>>]

json_list(x) == [t |-> "list", s |-> <<>>, l |-> x]

\* the longest inputFileURLs list of the manifests unpack is given
MaxInputFileURLs == 2

\* mainWorkflowURL texts: files inside, a directory, a missing file, the empty text,
\* and paths that leave the directory ("..", absolute, symlink)
MainURLs ==
    {<<"m">>, <<"s", "/", "x">>, <<"s">>, <<"n">>, <<>>,
     <<".", ".", "/", "e", "/", "p">>, <<".", ".", "/", ".", ".", "/", "e", "/", "p">>, <<"/", "e", "/", "p">>, <<"l">>}

\* inputFileURLs elements
InputEntries == {json_num, json_str(<<"j">>), json_str(<<>>), json_str(<<".", ".", "/", ".", ".", "/", "e", "/", "p">>)}

RECURSIVE lists_upto(_, _)
lists_upto(E, n) ==
    IF n = 0 THEN {<<>>}
    ELSE LET shorter == lists_upto(E, n - 1)
         IN  shorter \cup {Append(l, e) : l \in {x \in shorter : Len(x) = n - 1}, e \in E}

NoManifest == [json |-> "none", mainWorkflowURL |-> Absent, inputFileURLs |-> Absent]

Garbage == [json |-> "garbage", mainWorkflowURL |-> Absent, inputFileURLs |-> Absent]

Manifests ==
    {Garbage, [json |-> "list", mainWorkflowURL |-> Absent, inputFileURLs |-> Absent]} \cup
    {[json |-> "dict", mainWorkflowURL |-> mw, inputFileURLs |-> ifu] :
        mw \in {Absent, json_num} \cup {json_str(u) : u \in MainURLs},
        ifu \in {Absent, json_str(<<"j">>)}
                \cup {json_list(l) : l \in lists_upto(InputEntries, MaxInputFileURLs)}}

\* isinstance(manifest.get(key, None), str / list)
isinstance(x, t) == x.t = t

(***************************************************************************)
(* unpack                                                                  *)
(***************************************************************************)

\* the UnpackedZip of a call that has yielded none
NoHandle == [dir |-> NoPath, main_wdl |-> NoPath, input_file |-> NoPath]

\* the scope of unpack ends with an exception: its with block unwinds
UnpackRaise(exc, f) ==
    /\ pc' = "unpack_failed"
    /\ error' = exc
    /\ fs' = exit_stack_close(f, cleanup)
    /\ cleanup' = <<>>

\* archive_fn after `if os.path.isdir(archive_fn):`
manifest_candidate(f, fn) == IF isdir(f, fn) THEN join(fn, MANIFEST_json) ELSE fn

\* the whole path compared with "MANIFEST.json" instead of its basename
is_manifest_path_whole(fn) == fn = MANIFEST_json

\* `if os.path.basename(archive_fn) == "MANIFEST.json":` : the path is used as it is
is_manifest_path(fn) == basename(fn) = MANIFEST_json

\* shutil.unpack_archive can read the file
readable_archive(f, fn) == fn = p_g /\ isfile(f, fn)

\* lines 187-199: the manifest is located, an archive is extracted first
UnpackOpen ==
    /\ pc = "idle"
    /\ \E given \in ArchiveFns, m \in Manifests :
         LET fn == manifest_candidate(fs, given)
             entered == enter_context(cleanup, "dn")
         IN  /\ given \in {p_k, p_v} => m = Garbage
             /\ archive_fn' = fn
             /\ package' = m
             /\ IF is_manifest_path(fn)
                THEN /\ manifest_fn' = fn
                     /\ pc' = "opened"
                     /\ log' = [NoLog EXCEPT !.given = given, !.fs0 = fs]
                     /\ UNCHANGED <<cleanup, error, fs>>
                ELSE /\ log' = [NoLog EXCEPT !.given = given, !.fs0 = fs, !.created = {"dn"}]
                     /\ \/ /\ readable_archive(fs, fn)
                           /\ fs' = [mkdtemp(fs, "dn") EXCEPT !.extracted = TRUE]
                           /\ cleanup' = entered
                           /\ manifest_fn' = join(p_dn, MANIFEST_json)
                           /\ pc' = "opened"
                           /\ error' = None
                        \/ /\ pc' = "unpack_failed"
                           /\ error' = "InputError: Unreadable source archive"
                           /\ fs' = exit_stack_close(mkdtemp(fs, "dn"), entered)
                           /\ cleanup' = <<>>
                           /\ manifest_fn' = NoPath
    /\ handle' = NoHandle
    /\ UNCHANGED buildVars

\* the manifest read from manifest_fn: [raised, manifest]
load_manifest(f, fn, content) ==
    IF ~isfile(f, fn) \/ content.json = "garbage" THEN [raised |-> TRUE, manifest |-> content]
    ELSE IF ~(content.json = "dict" /\ isinstance(content.mainWorkflowURL, "str"))
         THEN [raised |-> TRUE, manifest |-> content]
    ELSE [raised |-> FALSE, manifest |-> content]

\* input_file of lines 213-219
input_file_of(manifest) ==
    LET ifu == manifest.inputFileURLs
    IN  IF isinstance(ifu, "list") /\ ifu.l # <<>> /\ isinstance(ifu.l[1], "str")
        THEN ifu.l[1].s
        ELSE NoPath

\* truth value of an Optional[str]
truthy(x) == x # NoPath /\ x # <<>>

\* the sanity check without path_really_within for the main document
refers_to_invalid_unconfined(f, dn, main_wdl_abs, input_file_abs) ==
    \/ ~isfile(f, main_wdl_abs)
    \/ /\ truthy(input_file_abs)
       /\ ~(isfile(f, input_file_abs) /\ path_really_within(f, input_file_abs, dn))

\* the condition of the sanity check, under which unpack raises
refers_to_invalid(f, dn, main_wdl_abs, input_file_abs) ==
    \/ ~(isfile(f, main_wdl_abs) /\ path_really_within(f, main_wdl_abs, dn))
    \/ /\ truthy(input_file_abs)
       /\ ~(isfile(f, input_file_abs) /\ path_really_within(f, input_file_abs, dn))

\* lines 201-232: the manifest is read and checked, and the handle yielded
UnpackValidate ==
    /\ pc = "opened"
    /\ LET r == load_manifest(fs, manifest_fn, package)
           dn == os_path_abspath(dirname(manifest_fn))
           main_wdl == r.manifest.mainWorkflowURL.s
           input_file == input_file_of(r.manifest)
           main_wdl_abs == join(dn, main_wdl)
           input_file_abs == IF truthy(input_file) THEN join(dn, input_file) ELSE NoPath
       IN  IF r.raised
           THEN /\ UnpackRaise("InputError: Missing or invalid MANIFEST.json", fs)
                /\ UNCHANGED handle
           ELSE IF refers_to_invalid(fs, dn, main_wdl_abs, input_file_abs)
           THEN /\ UnpackRaise("InputError: MANIFEST.json refers to missing or invalid files", fs)
                /\ UNCHANGED handle
           ELSE /\ handle' = [dir |-> dn, main_wdl |-> main_wdl_abs,
                              input_file |-> input_file_abs]
                /\ pc' = "body"
                /\ UNCHANGED <<cleanup, error, fs>>
    /\ UNCHANGED <<buildVars, archive_fn, package, manifest_fn, log>>

\* the caller's with body ends, normally or with an exception of its own
BodyExit ==
    /\ pc = "body"
    /\ \/ /\ pc' = "unpack_done"
          /\ fs' = exit_stack_close(fs, cleanup)
          /\ cleanup' = <<>>
          /\ UNCHANGED error
       \/ UnpackRaise("BodyError", fs)
    /\ UNCHANGED <<buildVars, unpackVars, log>>

\* the caller goes on after the call: the call's locals are gone, the filesystem stays
Return ==
    /\ pc \in {"done", "failed", "unpack_done", "unpack_failed"}
    /\ pc' = "idle"
    /\ top_doc' = None
    /\ archive' = NoPath
    /\ inputs' = None
    /\ meta' = None
    /\ archive_format' = None
    /\ queue' = <<>>
    /\ wdls' = <<>>
    /\ zip_paths' = <<>>
    /\ written' = 0
    /\ error' = None
    /\ archive_fn' = NoPath
    /\ package' = NoManifest
    /\ manifest_fn' = NoPath
    /\ handle' = NoHandle
    /\ log' = NoLog
    /\ UNCHANGED <<cleanup, fs>>

vars == <<pc, top_doc, archive, inputs, meta, archive_format, queue, wdls, zip_paths,
          written, cleanup, error, fs, archive_fn, package, manifest_fn, handle, log>>

Init ==
    /\ pc = "idle"
    /\ top_doc = None
    /\ archive = NoPath
    /\ inputs = None
    /\ meta = None
    /\ archive_format = None
    /\ queue = <<>>
    /\ wdls = <<>>
    /\ zip_paths = <<>>
    /\ written = 0
    /\ cleanup = <<>>
    /\ error = None
    /\ fs = InitFs
    /\ archive_fn = NoPath
    /\ package = NoManifest
    /\ manifest_fn = NoPath
    /\ handle = NoHandle
    /\ log = NoLog

Next ==
    \/ StartBuild
    \/ Collect
    \/ DerivePaths
    \/ EnterStaging
    \/ WriteDoc
    \/ WriteManifest
    \/ BeginArchive
    \/ FinishArchive
    \/ MoveToFinal
    \/ UnpackOpen
    \/ UnpackValidate
    \/ BodyExit
    \/ Return

Spec == Init /\ [][Next]_vars

(***************************************************************************)
(* Properties                                                              *)
(***************************************************************************)

BuildPcs == {"collect", "staging", "write", "archive", "archiving", "move", "done", "failed"}

UnpackPcs == {"opened", "body", "unpack_done", "unpack_failed"}

\* C1: the archive path map is injective: no two distinct absolute source paths of a
\* closure are assigned the same archive path.
C1_ZipPathsInjective ==
    \A i, j \in 1..Len(zip_paths) :
        zip_paths[i].key # zip_paths[j].key => zip_paths[i].val # zip_paths[j].val

\* the longest common prefix of a and b that ends at a "/" boundary
boundary_prefix(a, b) ==
    LET c == commonprefix(a, b) IN SubSeq(c, 1, lastslash(c))

\* the archive path the quarantine rule gives a document outside main_dir
quarantine_path(main_dir, abspath) ==
    LET a2 == replace(abspath, scheme_sep, underscore)
        m2 == replace(main_dir, scheme_sep, underscore)
    IN  outside_wdl \o strfrom(a2, Len(boundary_prefix(a2, m2)))

\* C2: once the closure is collected and build_zip_paths has run, every document outside
\* main_dir has the archive path "__outside_wdl/" + the suffix of its normalized path
\* beyond the longest common prefix with main_dir ending at "/"; the derivation never
\* fails for such a document.
C2_QuarantineAlwaysDerived ==
    pc \in BuildPcs \ {"collect"} =>
        \A i \in 1..Len(wdls) :
            LET abspath == wdls[i].key
                main_dir == main_dir_of(Docs[top_doc])
            IN  ~startswith(abspath, main_dir) =>
                    /\ dict_has(zip_paths, abspath)
                    /\ dict_get(zip_paths, abspath) = quarantine_path(main_dir, abspath)

\* the regular files a source tree rooted at the components root holds
RegularFilesUnder(root) ==
    {root \o rel : rel \in {<<<<"m">>>>, <<<<"j">>>>, <<<<"s">>, <<"x">>>>, <<MANIFEST_json>>}}

\* mainWorkflowURL texts that leave the manifest's directory or name no regular file in it,
\* wherever the manifest lies
BadMainURLs ==
    {<<".", ".", "/", ".", ".", "/", "e", "/", "p">>, <<".", ".", "/", "e", "/", "p">>,
     <<"/", "e", "/", "p">>, <<"l">>, <<"n">>, <<"s">>, <<>>}

RefersToInvalid == "InputError: MANIFEST.json refers to missing or invalid files"

\* C3: a handle is yielded only when the main document (and the default-inputs file, when
\* one is consumed) is a regular file strictly inside the manifest's directory; a manifest
\* whose mainWorkflowURL escapes the directory or names a missing file ends in the
\* "refers to missing or invalid files" InputError and yields no handle.
C3_HandleOnlyForFilesInside ==
    /\ pc \in {"body", "unpack_done"} =>
          /\ realpath(fs, handle.main_wdl) \in RegularFilesUnder(realpath(fs, handle.dir))
          /\ handle.input_file # NoPath =>
                realpath(fs, handle.input_file) \in RegularFilesUnder(realpath(fs, handle.dir))
          /\ package.mainWorkflowURL.s \notin BadMainURLs
    /\ ( /\ pc \in UnpackPcs \ {"opened"}
         /\ manifest_fn # NoPath
         /\ package.json = "dict"
         /\ package.mainWorkflowURL.t = "str"
         /\ package.mainWorkflowURL.s \in BadMainURLs )
       => /\ pc = "unpack_failed"
          /\ error = RefersToInvalid
          /\ handle = NoHandle

\* C3 witness: a manifest naming "../../e/p" was read from an extracted archive and refused
C3_Witness ==
    /\ pc = "unpack_failed"
    /\ error = RefersToInvalid
    /\ log.created = {"dn"}
    /\ package.mainWorkflowURL.s = <<".", ".", "/", ".", ".", "/", "e", "/", "p">>

\* C4: the destination path keeps the content it had when build was called until the final
\* rename, also when build fails at any step; after a successful build it holds the
\* complete archive.
C4_DestinationOnlyRenamed ==
    /\ pc \in BuildPcs \ {"done"} => fs.files[archive] = log.dest0
    /\ pc = "done" => fs.files[archive] = "complete"
    /\ pc \in BuildPcs =>
          \A a \in ArchivePaths \ {archive} : fs.files[a] = log.fs0.files[a]

\* C4 witness: compression was interrupted after staging, with a file already at the
\* destination
C4_Witness ==
    /\ pc = "failed"
    /\ log.failed_at = "make_archive"
    /\ archive_format = "zip"
    /\ log.dest0 = "old"

\* C5: when a build call has returned or failed, and when an unpack scope has ended in any
\* way, no temporary directory of the call exists any more.
C5_TempDirsDeleted ==
    pc \in {"idle", "done", "failed", "unpack_done", "unpack_failed"} =>
        /\ fs.tmpdirs = {}
        /\ fs.staged = <<>>
        /\ fs.tmp_zip_file = absent
        /\ ~fs.extracted

\* C5 witness: the caller's body raised inside the scope of an unpack that had extracted
\* an archive
C5_Witness ==
    /\ pc = "unpack_failed"
    /\ error = "BodyError"
    /\ log.created = {"dn"}

\* C6: given a directory or a path named MANIFEST.json, unpack creates no extraction
\* directory and leaves the filesystem as it was, however the scope ends; unpack never
\* deletes the caller's directory, and the only directory it holds is one it created.
C6_NothingCreatedOrDeleted ==
    pc \in UnpackPcs =>
        /\ fs.user_dir
        /\ fs.tmpdirs \subseteq log.created
        /\ log.given \in {p_u, p_v, p_u_manifest} =>
              /\ log.created = {}
              /\ fs = log.fs0

\* C6 witness: the caller's body raised inside the scope of an unpack given the directory /u
C6_Witness ==
    /\ pc = "unpack_failed"
    /\ error = "BodyError"
    /\ log.given = p_u

\* a line of the span of imp, in the original lines, holds the quoted URI, and the same
\* line of the result holds the quoted new path
edge_rewritten(doc, imp, result) ==
    \E n \in imp.line..imp.end_line :
        /\ contains(doc.source_lines[n], quoted(imp.uri))
        /\ contains(result[n], quoted(new_uri(doc, imp, zip_paths)))

\* C7: in the lines rewrite_imports returns, every import edge's quoted URI has been
\* replaced by the quoted relative path to the imported document's archive path.
C7_EveryEdgeRewritten ==
    \A k \in 1..Len(log.rewritten) :
        LET doc == Docs[wdls[k].val]
        IN  \A e \in 1..Len(doc.imports) :
                edge_rewritten(doc, doc.imports[e], log.rewritten[k])

\* C8: each document has its import edges pushed onto the worklist at most once.
C8_ExpandedAtMostOnce == \A d \in DocIds : log.expanded[d] <= 1

\* the first inputFileURLs entry of the manifest is text
first_input_textual(m) ==
    /\ m.inputFileURLs.t = "list"
    /\ m.inputFileURLs.l # <<>>
    /\ m.inputFileURLs.l[1].t = "str"

\* C9: for an accepted manifest, a textual inputFileURLs[0] becomes the handle's input_file,
\* resolved against the manifest's directory, and input_file is None only when there is no
\* textual inputFileURLs[0].
C9_InputFileFromFirstEntry ==
    pc = "body" =>
        IF first_input_textual(package)
        THEN handle.input_file = join(handle.dir, package.inputFileURLs.l[1].s)
        ELSE handle.input_file = NoPath

\* the data-model invariant: every import's span holds a line with its quoted URI
spans_hold_literals(doc) ==
    \A e \in 1..Len(doc.imports) :
        \E n \in doc.imports[e].line..doc.imports[e].end_line :
            contains(doc.source_lines[n], quoted(doc.imports[e].uri))

\* C10: rewrite_imports fails its `assert found` only for a document whose original lines
\* lack an import's quoted URI within its span.
C10_FoundUnlessLiteralMissing ==
    (pc = "failed" /\ log.failed_at = "rewrite_imports") =>
        ~spans_hold_literals(Docs[wdls[written + 1].val])
====
